---- MODULE Spec2Model ----
(***************************************************************************)
(* Model of the image benchmark harness: findcontour_time_10000.cpp,      *)
(* time_skip.cpp and max_time.cpp.  One producer (the main thread, which   *)
(* enumerates the directory) and one consumer task (the lambda handed to   *)
(* group.run) share image_queue, processing_complete and the run           *)
(* statistics; main repeats run_experiment and folds the results.         *)
(*                                                                         *)
(* Real numbers (double) are integers here: times are whole microseconds,  *)
(* ratios are hundredths.  Averages are kept as <<numerator, divisor>>.    *)
(***************************************************************************)
EXTENDS Integers, Sequences, FiniteSets, TLC

\* ------------------------------------------------------------------ bounds
\* Number of frame files in the directory (besides background.tiff and a
\* non-.tiff entry).
MaxFiles == 2
\* Repetitions of the main loop (10000 in findcontour_time_10000.cpp:193,
\* 1000 in max_time.cpp:177), cut down to a bound.
Repetitions == 2

\* Hardware threads of the machine: what thread::hardware_concurrency()
\* gives the task_arena.
HardwareThreads == 2
\* Greatest total handed to print_progress in ProgressSpec.
MaxTotal == 70

\* Number of image files in the directory pixel.cpp scans.
MaxPixelFiles == 3

\* ------------------------------------------------------- program constants
\* numeric_limits<int>::max()
IntMax == 2147483647
PixelLow == 250
PixelHigh == 650
TimeBudget == 200
TopK == 5
BarWidth == 70

\* The three harness programs.
Variants == {"findcontour", "time_skip", "max_time"}

\* ------------------------------------------------------------- the inputs
\* What the directory can hold: frame files, the reference frame and an
\* entry that is no .tiff file.  The content of a frame (whether imread can
\* decode it, its white-pixel count after thresholding, whether findContours
\* finds a contour and the ratios of its largest contour) is a function of
\* the file; only the clock readings differ from one processing to the next.
FrameFiles == {"A.tiff", "B.tiff", "C.tiff", "D.tiff", "E.tiff", "U.tiff"}
OtherEntries == {"background.tiff", "notes.txt"}

Frame(f) ==
    CASE f = "A.tiff" -> [readable |-> TRUE, white |-> 249, contours |-> 1,
                          circularity_ratio |-> 90, area_ratio |-> 120]
      [] f = "B.tiff" -> [readable |-> TRUE, white |-> 250, contours |-> 1,
                          circularity_ratio |-> 90, area_ratio |-> 120]
      [] f = "C.tiff" -> [readable |-> TRUE, white |-> 650, contours |-> 1,
                          circularity_ratio |-> 100, area_ratio |-> 100]
      [] f = "D.tiff" -> [readable |-> TRUE, white |-> 651, contours |-> 1,
                          circularity_ratio |-> 100, area_ratio |-> 100]
      [] f = "E.tiff" -> [readable |-> TRUE, white |-> 400, contours |-> 0,
                          circularity_ratio |-> 0, area_ratio |-> 0]
      [] OTHER        -> [readable |-> FALSE, white |-> 0, contours |-> 0,
                          circularity_ratio |-> 0, area_ratio |-> 0]

\* Clock readings (microseconds) a processing can measure.
Durations == {0, 200, 201}

\* ------------------------------------------------------- pure functions
\* entry.path().extension() and entry.path().filename()
\* extension() is the part of the file name from its last dot on (none when
\* the only dot is the first character).
RECURSIVE LastDot(_, _)
LastDot(e, k) ==
    IF k <= 1 THEN 0
    ELSE IF SubSeq(e, k, k) = "." THEN k
    ELSE LastDot(e, k - 1)

Extension(e) ==
    LET k == LastDot(e, Len(e))
    IN  IF k = 0 THEN "" ELSE SubSeq(e, k, Len(e))

\* A faulty IsWorkItem: the test of the file name is missing.
IsWorkItemAnyTiff(e) == Extension(e) = ".tiff"

\* The filter of the directory loop.
IsWorkItem(e) == Extension(e) = ".tiff" /\ e # "background.tiff"

\* ContourMetrics(): every field 0.
ZeroMetrics == [circularity_ratio |-> 0, area_ratio |-> 0]

\* calculate_contour_metrics: no contour gives the default metrics.
calculate_contour_metrics(fr) ==
    IF fr.contours = 0 THEN ZeroMetrics
    ELSE [circularity_ratio |-> fr.circularity_ratio, area_ratio |-> fr.area_ratio]

\* A faulty OverBudget: an elapsed time equal to the budget is refused.
OverBudgetInclusive(t) == t >= TimeBudget

\* if (duration > 200) return false;
OverBudget(t) == t > TimeBudget

\* process_single_image of the three programs.  a and b are the two clock
\* readings of one processing, a <= b.  The result says whether the call
\* threw (imread gives an empty Mat for an undecodable file and the filter
\* that follows raises cv::Exception), the value left in duration, in
\* findcontour_duration and in metrics, the bool the time_skip version
\* returns, and whether findContours was reached.
process_single_image(v, f, a, b) ==
    LET fr == Frame(f)
    IN  IF ~fr.readable
        THEN [threw |-> TRUE, metrics |-> ZeroMetrics, duration |-> 0,
              findcontour_duration |-> 0, processed |-> FALSE, extracted |-> FALSE]
        ELSE IF v = "findcontour"
        THEN IF fr.white < PixelLow \/ fr.white > PixelHigh
             THEN [threw |-> FALSE, metrics |-> ZeroMetrics, duration |-> 0,
                   findcontour_duration |-> 0, processed |-> FALSE, extracted |-> FALSE]
             ELSE [threw |-> FALSE, metrics |-> calculate_contour_metrics(fr),
                   duration |-> b, findcontour_duration |-> a,
                   processed |-> TRUE, extracted |-> TRUE]
        ELSE IF v = "time_skip"
        THEN IF OverBudget(a)
             THEN [threw |-> FALSE, metrics |-> ZeroMetrics, duration |-> a,
                   findcontour_duration |-> 0, processed |-> FALSE, extracted |-> FALSE]
             ELSE IF OverBudget(b)
             THEN [threw |-> FALSE, metrics |-> ZeroMetrics, duration |-> b,
                   findcontour_duration |-> 0, processed |-> FALSE, extracted |-> TRUE]
             ELSE [threw |-> FALSE, metrics |-> calculate_contour_metrics(fr),
                   duration |-> b, findcontour_duration |-> 0,
                   processed |-> TRUE, extracted |-> TRUE]
        ELSE [threw |-> FALSE, metrics |-> calculate_contour_metrics(fr),
              duration |-> b, findcontour_duration |-> 0,
              processed |-> TRUE, extracted |-> TRUE]

\* The test that sends a processed item to the success branch:
\* process_time > 0 (findcontour, max_time) or the returned bool (time_skip).
IsSuccess(v, t, ok) == IF v = "time_skip" THEN ok ELSE t > 0

\* ---- float arithmetic of the progress line
\* A positive float is <<m, e>>, the value m / 2^e with 2^23 <= m <= 2^24;
\* zero is <<0, 0>>.
\* The numerator doubled until it is at least the denominator: <<c * 2^k, k>>.
RECURSIVE Normalise(_, _, _)
Normalise(c, t, k) == IF c >= t THEN <<c, k>> ELSE Normalise(2 * c, t, k + 1)

\* Long division: bits more quotient bits of r / t appended to m.
RECURSIVE Mantissa(_, _, _, _)
Mantissa(m, r, t, bits) ==
    IF bits = 0 THEN <<m, r>>
    ELSE IF 2 * r >= t THEN Mantissa(2 * m + 1, 2 * r - t, t, bits - 1)
    ELSE Mantissa(2 * m, 2 * r, t, bits - 1)

\* static_cast<float>(current) / total: the quotient rounded to the nearest
\* float (24 significant bits, ties to even), 0 <= current <= total.
FloatDiv(current, total) ==
    IF current = 0 THEN <<0, 0>>
    ELSE LET n == Normalise(current, total, 0)
             d == Mantissa(1, n[1] - total, total, 23)
             up == 2 * d[2] > total \/ (2 * d[2] = total /\ d[1] % 2 = 1)
         IN  <<IF up THEN d[1] + 1 ELSE d[1], 23 + n[2]>>

\* The number of bits by which P exceeds 24 bits.
RECURSIVE Excess(_, _)
Excess(P, s) == IF P \div (2 ^ s) < 2 ^ 24 THEN s ELSE Excess(P, s + 1)

\* A faulty FloatMulToInt: the product is rounded to the nearest integer.
FloatMulToIntRounds(w, x) ==
    IF x[1] = 0 THEN 0
    ELSE LET P == w * x[1]
             s == Excess(P, 0)
             M == P \div (2 ^ s)
         IN  (M + 2 ^ (x[2] - s - 1)) \div (2 ^ (x[2] - s))

\* static_cast<int>(barWidth * progress): the float product, rounded to the
\* nearest float, then truncated.
FloatMulToInt(w, x) ==
    IF x[1] = 0 THEN 0
    ELSE LET P == w * x[1]
             s == Excess(P, 0)
             q == P \div (2 ^ s)
             r == P % (2 ^ s)
             M == IF 2 * r > 2 ^ s \/ (2 * r = 2 ^ s /\ q % 2 = 1) THEN q + 1 ELSE q
         IN  M \div (2 ^ (x[2] - s))

\* progress * 100.0 is a double product and exact.  findcontour_time_10000.cpp
\* prints static_cast<int>(std::round(.)), max_time.cpp int(.).
Percentage(v, x) ==
    IF x[1] = 0 THEN 0
    ELSE LET q == (100 * x[1]) \div (2 ^ x[2])
             r == (100 * x[1]) % (2 ^ x[2])
         IN  IF v = "findcontour" /\ 2 * r >= 2 ^ x[2] THEN q + 1 ELSE q

\* print_progress / print_progress_bar: the characters between the brackets
\* and the number before the percent sign.
print_progress(v, current, total) ==
    LET progress == FloatDiv(current, total)
        pos == FloatMulToInt(BarWidth, progress)
    IN  [current |-> current, total |-> total,
         bar |-> [j \in 1..BarWidth |->
                    IF j - 1 < pos THEN "=" ELSE IF j - 1 = pos THEN ">" ELSE " "],
         percent |-> Percentage(v, progress)]

\* Nothing printed yet.
NoLine == [current |-> 0, total |-> 0, bar |-> <<>>, percent |-> 0]

\* ---- the ranking of max_time.cpp
\* The keys of the catalogue in the order of std::map<string, int>
\* (operator< of std::string).
NameOrder == <<"A.tiff", "B.tiff", "C.tiff", "D.tiff", "E.tiff", "U.tiff">>

\* vector<pair<string, int>> image_count_vec(image_count.begin(), image_count.end())
image_count_vec(m) ==
    LET keys == SelectSeq(NameOrder, LAMBDA name : name \in DOMAIN m)
    IN  [k \in DOMAIN keys |-> <<keys[k], m[keys[k]]>>]

\* What std::sort with the comparator a.second > b.second can leave: any
\* arrangement of the vector in which no element precedes one with a greater
\* count (the order of elements with equal counts is unspecified).
SortOutcomes(vec) ==
    LET n == Len(vec)
        perms == {f \in [1..n -> 1..n] : \A j, k \in 1..n : j # k => f[j] # f[k]}
    IN  {[k \in 1..n |-> vec[f[k]]] : f \in
            {g \in perms : \A j, k \in 1..n : j < k => vec[g[j]][2] >= vec[g[k]][2]}}

\* for (i = 0; i < min(5, size); ++i): the lines printed.
TopLines(sorted) ==
    SubSeq(sorted, 1, IF Len(sorted) < TopK THEN Len(sorted) ELSE TopK)

\* ---- pixel.cpp
\* What the directory of pixel.cpp can hold: image files (two pairs with
\* equal white-pixel counts, one without a white pixel, one imread cannot
\* decode), the reference frame, an entry that is no .tiff file and a
\* subdirectory whose name ends in .tiff.
PixelFiles == {"p0.tiff", "p1.tiff", "p2.tiff", "p3.tiff", "p4.tiff", "pu.tiff"}
PixelOther == {"background.tiff", "notes.txt", "sub.tiff"}

PixelFrame(f) ==
    CASE f = "p0.tiff" -> [readable |-> TRUE, white |-> 0]
      [] f = "p1.tiff" -> [readable |-> TRUE, white |-> 300]
      [] f = "p2.tiff" -> [readable |-> TRUE, white |-> 300]
      [] f = "p3.tiff" -> [readable |-> TRUE, white |-> 700]
      [] f = "p4.tiff" -> [readable |-> TRUE, white |-> 700]
      [] OTHER         -> [readable |-> FALSE, white |-> 0]

\* entry.is_regular_file()
is_regular_file(e) == e # "sub.tiff"

\* The filter of the loop of pixel.cpp.
PixelFilter(e) ==
    is_regular_file(e) /\ Extension(e) = ".tiff" /\ e # "background.tiff"

\* if (white_pixel_count > max_info.white_pixel_count)
ExceedsMaxCount(w, m) == w > m

\* process_single_image of pixel.cpp: the ImageInfo pair it leaves.
pixel_process_single_image(f, mx, mn) ==
    LET fr == PixelFrame(f)
    IN  IF ~fr.readable THEN [max_info |-> mx, min_info |-> mn]
        ELSE [max_info |-> IF ExceedsMaxCount(fr.white, mx.white_pixel_count)
                           THEN [filename |-> f, white_pixel_count |-> fr.white]
                           ELSE mx,
              min_info |-> IF fr.white < mn.white_pixel_count
                           THEN [filename |-> f, white_pixel_count |-> fr.white]
                           ELSE mn]

\* Nothing printed after the loop yet.
NoSummary == [printed |-> "nothing",
              max |-> [filename |-> "", white_pixel_count |-> 0],
              min |-> [filename |-> "", white_pixel_count |-> 0]]

\* ------------------------------------------------------------------ state
VARIABLES
    variant,                  \* which of the three programs runs
    dir,                      \* the frame files of the directory
    mpc,                      \* position of the main thread
    i,                        \* repetition counter of main's loop
    results,                  \* vector of (path, circularity, area, time[, fc time])
    skipped_images,           \* vector of path (findcontour) or (path, time) (time_skip)
    max_time_image,           \* pair (path, time); max_time.cpp: (current_max_image, current_max_time)
    total_circularity_ratio,  \* main's cross-run totals
    total_area_ratio,
    total_processing_time,
    total_findcontour_time,
    image_count,              \* max_time.cpp: map file name -> count
    average,                  \* the reported averages, each <<sum, divisor>>
    exit_code,                \* exit status once mpc is "exit" or "terminated"
    cerr,                     \* number of lines written to the diagnostic stream
    background,               \* the reference frame as imread gave it
    total_time,               \* run_experiment's locals
    run_findcontour_time,     \* (run_experiment's own total_findcontour_time)
    number,
    max_process_time,
    mtx,                      \* "free" or the holder
    image_queue,
    processing_complete,
    toVisit,                  \* entries the directory_iterator has not yet given
    cpc,                      \* position of the consumer task
    path,                     \* the consumer's locals
    process_time,
    findcontour_time,
    metrics,
    processed,
    pushed,                   \* history: paths pushed in this run
    calls,                    \* history: process_single_image calls of this run
    allSuccesses,             \* history: Successes of all runs, summed
    prevRun,                  \* history: the calls and statistics of the last completed run
    progress_line,            \* the last line print_progress / print_progress_bar wrote
    ranking,                  \* max_time.cpp: the lines of the final ranking
    maxItems,                 \* history: the slowest Success of each repetition ("" if none)
    max_info,                 \* pixel.cpp: ImageInfo of the most white pixels
    min_info,                 \* pixel.cpp: ImageInfo of the fewest white pixels
    processed_any_file,       \* pixel.cpp
    visited,                  \* history: the files pixel.cpp handed to process_single_image
    summary                   \* pixel.cpp: what main printed after the loop

vars == <<variant, dir, mpc, i, results, skipped_images, max_time_image,
          total_circularity_ratio, total_area_ratio, total_processing_time,
          total_findcontour_time, image_count, average, exit_code, cerr,
          background, total_time, run_findcontour_time, number, max_process_time, mtx,
          image_queue, processing_complete, toVisit, cpc, path, process_time,
          findcontour_time, metrics, processed, pushed, calls, allSuccesses,
          prevRun, progress_line, ranking, maxItems, max_info, min_info,
          processed_any_file, visited, summary>>

mainVars == <<mpc, i, total_circularity_ratio, total_area_ratio,
              total_processing_time, total_findcontour_time, image_count,
              average, exit_code, cerr, background, toVisit>>
totalVars == <<total_circularity_ratio, total_area_ratio,
               total_processing_time, total_findcontour_time>>
runVars == <<total_time, run_findcontour_time, number, max_process_time>>
outVars == <<results, skipped_images, max_time_image>>
localVars == <<path, process_time, findcontour_time, metrics, processed>>
inputVars == <<variant, dir>>
printVars == <<progress_line, ranking, maxItems>>
pixelVars == <<max_info, min_info, processed_any_file, visited, summary>>

\* Repetitions of run_experiment: time_skip.cpp calls it once.
RepetitionsOf(v) == IF v = "time_skip" THEN 1 ELSE Repetitions

NoSums == [circularity_ratio |-> 0, area_ratio |-> 0, time |-> 0,
           findcontour_time |-> 0, count |-> 0]

\* The statistics of a run, its vectors taken as sets.
Statistics(tt, ft, n, mx, item, res, skip) ==
    [total_elapsed |-> tt, total_secondary_elapsed |-> ft, success_count |-> n,
     max_elapsed |-> mx, max_item |-> item,
     results |-> {res[k] : k \in DOMAIN res},
     skip_list |-> {skip[k] : k \in DOMAIN skip}]

NoRun == [valid |-> FALSE, calls |-> <<>>, pushed |-> <<>>,
          stats |-> Statistics(0, 0, 0, 0, "", <<>>, <<>>)]

Init ==
    /\ variant \in Variants
    /\ dir \in {d \in SUBSET FrameFiles : Cardinality(d) <= MaxFiles}
    /\ mpc = "main"
    /\ i = 0
    /\ results = <<>>
    /\ skipped_images = <<>>
    /\ max_time_image = <<"", 0>>
    /\ total_circularity_ratio = 0
    /\ total_area_ratio = 0
    /\ total_processing_time = 0
    /\ total_findcontour_time = 0
    /\ image_count = <<>>
    /\ average = <<>>
    /\ exit_code = 0
    /\ cerr = 0
    /\ background = "unread"
    /\ total_time = 0
    /\ run_findcontour_time = 0
    /\ number = 0
    /\ max_process_time = 0
    /\ mtx = "free"
    /\ image_queue = <<>>
    /\ processing_complete = FALSE
    /\ toVisit = {}
    /\ cpc = "idle"
    /\ path = ""
    /\ process_time = 0
    /\ findcontour_time = 0
    /\ metrics = ZeroMetrics
    /\ processed = FALSE
    /\ pushed = <<>>
    /\ calls = <<>>
    /\ allSuccesses = NoSums
    /\ prevRun = NoRun
    /\ progress_line = NoLine
    /\ ranking = <<>>
    /\ maxItems = <<>>
    /\ max_info = [filename |-> "", white_pixel_count |-> 0]
    /\ min_info = [filename |-> "", white_pixel_count |-> IntMax]
    /\ processed_any_file = FALSE
    /\ visited = <<>>
    /\ summary = NoSummary

\* ------------------------------------------------------- the main thread
\* Start of main.  max_time.cpp reads the reference frame once, before the
\* loop, and returns -1 when that fails; the other two read it inside
\* run_experiment.
MainStart ==
    /\ mpc = "main"
    /\ \E readable \in BOOLEAN :
         IF variant = "max_time"
         THEN /\ background' = IF readable THEN "image" ELSE "empty"
              /\ IF readable
                 THEN /\ mpc' = "loop"
                      /\ UNCHANGED <<cerr, exit_code>>
                 ELSE /\ cerr' = cerr + 1
                      /\ exit_code' = -1
                      /\ mpc' = "exit"
         ELSE /\ mpc' = "loop"
              /\ UNCHANGED <<cerr, exit_code, background>>
    /\ UNCHANGED <<inputVars, pixelVars, printVars, i, outVars, totalVars, image_count, average,
                   runVars, mtx, image_queue, processing_complete, toVisit,
                   cpc, localVars, pushed, calls, allSuccesses, prevRun>>

\* A faulty LoopHead: the outputs of the last run are not reset.
LoopHeadKeepsOutputs ==
    /\ mpc = "loop"
    /\ mpc' = IF i < RepetitionsOf(variant) THEN "run_experiment" ELSE "report"
    /\ UNCHANGED <<inputVars, pixelVars, printVars, i, outVars, totalVars, image_count, average,
                   exit_code, cerr, background, runVars, mtx, image_queue,
                   processing_complete, toVisit, cpc, localVars, pushed,
                   calls, allSuccesses, prevRun>>

\* Head of the repetition loop: the per-run outputs are reset and
\* run_experiment is called, or the loop ends.
LoopHead ==
    /\ mpc = "loop"
    /\ IF i < RepetitionsOf(variant)
       THEN /\ mpc' = "run_experiment"
            /\ results' = <<>>
            /\ skipped_images' = <<>>
            /\ max_time_image' = <<"", 0>>
       ELSE /\ mpc' = "report"
            /\ UNCHANGED outVars
    /\ UNCHANGED <<inputVars, pixelVars, printVars, i, totalVars, image_count, average, exit_code,
                   cerr, background, runVars, mtx, image_queue, processing_complete,
                   toVisit, cpc, localVars, pushed, calls, allSuccesses, prevRun>>

\* Entry of run_experiment up to the construction of processing_complete.
\* findcontour and time_skip read the reference frame here and return when
\* it is empty.
RunExperimentBegin ==
    /\ mpc = "run_experiment"
    /\ \E readable \in BOOLEAN :
         IF variant = "max_time"
         THEN /\ mpc' = "spawn"
              /\ UNCHANGED <<cerr, background>>
         ELSE /\ background' = IF readable THEN "image" ELSE "empty"
              /\ IF readable
                 THEN /\ mpc' = "spawn"
                      /\ UNCHANGED cerr
                 ELSE /\ cerr' = cerr + 1
                      /\ mpc' = "after_run"
    /\ total_time' = 0
    /\ run_findcontour_time' = 0
    /\ number' = 0
    /\ max_process_time' = 0
    /\ mtx' = "free"
    /\ image_queue' = <<>>
    /\ processing_complete' = FALSE
    /\ pushed' = <<>>
    /\ calls' = <<>>
    /\ UNCHANGED <<inputVars, pixelVars, printVars, i, outVars, totalVars, image_count, average,
                   exit_code, toVisit, cpc, localVars, allSuccesses, prevRun>>

\* arena.execute(group.run(consumer)): the consumer task becomes runnable
\* and main goes on to the directory loop.
Spawn ==
    /\ mpc = "spawn"
    /\ cpc' = "test"
    /\ toVisit' = dir \cup OtherEntries
    /\ mpc' = "enumerate"
    /\ UNCHANGED <<inputVars, pixelVars, printVars, i, outVars, totalVars, image_count, average,
                   exit_code, cerr, background, runVars, mtx, image_queue,
                   processing_complete, localVars, pushed, calls, allSuccesses, prevRun>>

\* One step of the directory loop: the iterator gives an entry (in an
\* unspecified order) and the entry is pushed if it passes the filter.
Enumerate ==
    /\ mpc = "enumerate"
    /\ \E e \in toVisit :
         /\ toVisit' = toVisit \ {e}
         /\ IF IsWorkItem(e)
            THEN /\ image_queue' = Append(image_queue, e)
                 /\ pushed' = Append(pushed, e)
            ELSE UNCHANGED <<image_queue, pushed>>
    /\ UNCHANGED <<inputVars, pixelVars, printVars, mpc, i, outVars, totalVars, image_count, average,
                   exit_code, cerr, background, runVars, mtx, processing_complete, cpc,
                   localVars, calls, allSuccesses, prevRun>>

\* A faulty SetComplete: the flag is set inside the directory loop.
SetCompleteEarly ==
    /\ mpc = "enumerate"
    /\ processing_complete' = TRUE
    /\ mpc' = IF toVisit = {} THEN "wait" ELSE "enumerate"
    /\ UNCHANGED <<inputVars, pixelVars, printVars, i, outVars, totalVars, image_count, average,
                   exit_code, cerr, background, runVars, mtx, image_queue, toVisit, cpc,
                   localVars, pushed, calls, allSuccesses, prevRun>>

\* processing_complete = true, after the directory loop.
SetComplete ==
    /\ mpc = "enumerate"
    /\ toVisit = {}
    /\ processing_complete' = TRUE
    /\ mpc' = "wait"
    /\ UNCHANGED <<inputVars, pixelVars, printVars, i, outVars, totalVars, image_count, average,
                   exit_code, cerr, background, runVars, mtx, image_queue, toVisit, cpc,
                   localVars, pushed, calls, allSuccesses, prevRun>>

\* A faulty Joined: wait() returns without waiting for the task.
JoinedWithoutWaiting == TRUE

\* Whether group.wait() can return: the consumer task has ended.
Joined == cpc = "done"

\* group.wait() returns once the consumer task has ended; max_time.cpp
\* then copies max_process_time to its out parameter.
GroupWait ==
    /\ mpc = "wait"
    /\ Joined
    /\ max_time_image' = IF variant = "max_time"
                         THEN <<max_time_image[1], max_process_time>>
                         ELSE max_time_image
    /\ mpc' = "after_run"
    /\ UNCHANGED <<inputVars, pixelVars, printVars, i, results, skipped_images, totalVars,
                   image_count, average, exit_code, cerr, background, runVars, mtx,
                   image_queue, processing_complete, toVisit, cpc, localVars,
                   pushed, calls, allSuccesses, prevRun>>

\* group.wait() rethrows the exception the consumer task ended with; no
\* handler exists up to main, so the program is terminated.
GroupWaitRethrow ==
    /\ mpc = "wait"
    /\ cpc = "threw"
    /\ mpc' = "terminated"
    /\ exit_code' = 134
    /\ UNCHANGED <<inputVars, pixelVars, printVars, i, outVars, totalVars, image_count, average,
                   cerr, background, runVars, mtx, image_queue, processing_complete,
                   toVisit, cpc, localVars, pushed, calls, allSuccesses, prevRun>>

\* Sum of field k of a vector of tuples.
RECURSIVE SumField(_, _)
SumField(rs, k) ==
    IF rs = <<>> THEN 0 ELSE Head(rs)[k] + SumField(Tail(rs), k)

\* A faulty Increment: the counter is set to 1 whatever it held.
IncrementOverwrites(m, name) ==
    [k \in DOMAIN m \cup {name} |-> IF k = name THEN 1 ELSE m[k]]

\* image_count[name] = image_count[name] + 1, operator[] giving 0 for a
\* key that is not yet in the map.
Increment(m, name) ==
    [k \in DOMAIN m \cup {name} |->
        IF k = name THEN (IF name \in DOMAIN m THEN m[name] ELSE 0) + 1
        ELSE m[k]]

\* The greatest elapsed time among the calls cs.
RECURSIVE MaxTime(_)
MaxTime(cs) ==
    IF cs = <<>> THEN 0
    ELSE LET m == MaxTime(Tail(cs))
         IN  IF Head(cs).time >= m THEN Head(cs).time ELSE m

\* The first element of cs with the greatest time (cs is not empty).
FirstSlowest(cs) ==
    LET m == MaxTime(cs)
        k == CHOOSE j \in DOMAIN cs :
                /\ cs[j].time = m
                /\ \A h \in 1..(j - 1) : cs[h].time # m
    IN  cs[k]

IsSuccessCall(c) == c.outcome = "Success"

\* History: the path of the slowest Success among the calls of a run, the
\* first processed on ties; "" when the run had no Success.
SlowestSuccess(cs) ==
    LET ok == SelectSeq(cs, IsSuccessCall)
    IN  IF ok = <<>> THEN "" ELSE FirstSlowest(ok).path

\* The statistics of the run that has just ended.
RunStatistics ==
    Statistics(total_time, run_findcontour_time, number, max_process_time,
               max_time_image[1], results, skipped_images)

\* After run_experiment: findcontour adds the run's results to the
\* cross-run totals, max_time counts the run's slowest image; then the
\* progress line is printed and the loop counter incremented.
Fold ==
    /\ mpc = "after_run"
    /\ IF variant = "findcontour"
       THEN /\ total_circularity_ratio' = total_circularity_ratio + SumField(results, 2)
            /\ total_area_ratio' = total_area_ratio + SumField(results, 3)
            /\ total_processing_time' = total_processing_time + SumField(results, 4)
            /\ total_findcontour_time' = total_findcontour_time + SumField(results, 5)
       ELSE UNCHANGED totalVars
    /\ IF variant = "max_time" /\ max_time_image[1] # ""
       THEN image_count' = Increment(image_count, max_time_image[1])
       ELSE UNCHANGED image_count
    /\ i' = i + 1
    /\ prevRun' = IF background = "image"
                  THEN [valid |-> TRUE,
                        calls |-> calls,
                        pushed |-> pushed,
                        stats |-> RunStatistics]
                  ELSE NoRun
    /\ progress_line' = IF variant = "time_skip" THEN progress_line
                        ELSE print_progress(variant, i + 1, RepetitionsOf(variant))
    /\ maxItems' = IF variant = "max_time" THEN Append(maxItems, SlowestSuccess(calls))
                   ELSE maxItems
    /\ mpc' = "loop"
    /\ UNCHANGED <<inputVars, pixelVars, ranking, outVars, average, exit_code, cerr, background, runVars, mtx,
                   image_queue, processing_complete, toVisit, cpc, localVars,
                   pushed, calls, allSuccesses>>

\* size_t total_processed_images = results.size() * repetitions
TotalProcessedImages == Len(results) * RepetitionsOf(variant)

\* total > 0 ? sum / total : 0, kept as <<sum, divisor>>.
Quotient(sum, total) == IF total > 0 THEN <<sum, total>> ELSE <<0, 1>>

\* After the loop: the averages are computed (max_time.cpp: the ranking is
\* sorted and printed) and main returns 0.
Report ==
    /\ mpc = "report"
    /\ average' =
         IF variant = "findcontour"
         THEN [circularity_ratio |-> Quotient(total_circularity_ratio, TotalProcessedImages),
               area_ratio |-> Quotient(total_area_ratio, TotalProcessedImages),
               processing_time |-> Quotient(total_processing_time, TotalProcessedImages),
               findcontour_time |-> Quotient(total_findcontour_time, TotalProcessedImages)]
         ELSE IF variant = "time_skip"
         THEN [processing_time |-> Quotient(SumField(results, 4), Len(results))]
         ELSE <<>>
    /\ IF variant = "max_time"
       THEN \E sorted \in SortOutcomes(image_count_vec(image_count)) :
                ranking' = TopLines(sorted)
       ELSE UNCHANGED ranking
    /\ exit_code' = 0
    /\ mpc' = "exit"
    /\ UNCHANGED <<inputVars, pixelVars, progress_line, maxItems, i, outVars, totalVars, image_count, cerr, background,
                   runVars, mtx, image_queue, processing_complete, toVisit,
                   cpc, localVars, pushed, calls, allSuccesses, prevRun>>

\* ----------------------------------------------------- the consumer task
consumerFrame == <<inputVars, pixelVars, printVars, mainVars>>

\* while (!processing_complete || ...): the flag is read first.
TestComplete ==
    /\ cpc = "test"
    /\ cpc' = IF ~processing_complete THEN "pop" ELSE "test_empty"
    /\ UNCHANGED <<consumerFrame, outVars, runVars, mtx, image_queue,
                   processing_complete, localVars, pushed, calls, allSuccesses, prevRun>>

\* A faulty TestEmpty: the loop ends as soon as the flag is read true,
\* whatever the queue holds.
TestEmptyIgnoresQueue ==
    /\ cpc = "test_empty"
    /\ cpc' = "done"
    /\ UNCHANGED <<inputVars, pixelVars, printVars, mainVars, outVars, runVars, mtx, image_queue,
                   processing_complete, localVars, pushed, calls, allSuccesses, prevRun>>

\* ... || !image_queue.empty()): read only when the flag was true; the
\* loop, and with it the task, ends when the queue is empty.
TestEmpty ==
    /\ cpc = "test_empty"
    /\ cpc' = IF image_queue = <<>> THEN "done" ELSE "pop"
    /\ UNCHANGED <<consumerFrame, outVars, runVars, mtx, image_queue,
                   processing_complete, localVars, pushed, calls, allSuccesses, prevRun>>

\* A faulty TryPop: the head is read but left in the queue.
TryPopLeavesHead ==
    /\ cpc = "pop"
    /\ IF image_queue # <<>>
       THEN /\ path' = Head(image_queue)
            /\ cpc' = "process"
       ELSE /\ cpc' = "test"
            /\ UNCHANGED path
    /\ UNCHANGED <<inputVars, pixelVars, printVars, mainVars, outVars, runVars, mtx, image_queue,
                   processing_complete, process_time, findcontour_time,
                   metrics, processed, pushed, calls, allSuccesses, prevRun>>

\* A faulty TryPop: the task ends when the pop finds the queue empty.
TryPopExitsOnEmpty ==
    /\ cpc = "pop"
    /\ IF image_queue # <<>>
       THEN /\ path' = Head(image_queue)
            /\ image_queue' = Tail(image_queue)
            /\ cpc' = "process"
       ELSE /\ cpc' = "done"
            /\ UNCHANGED <<path, image_queue>>
    /\ UNCHANGED <<inputVars, pixelVars, printVars, mainVars, outVars, runVars, mtx,
                   processing_complete, process_time, findcontour_time, metrics,
                   processed, pushed, calls, allSuccesses, prevRun>>

\* image_queue.try_pop(path), else this_thread::yield().
TryPop ==
    /\ cpc = "pop"
    /\ IF image_queue # <<>>
       THEN /\ path' = Head(image_queue)
            /\ image_queue' = Tail(image_queue)
            /\ cpc' = "process"
       ELSE /\ cpc' = "test"
            /\ UNCHANGED <<path, image_queue>>
    /\ UNCHANGED <<consumerFrame, outVars, runVars, mtx, processing_complete,
                   process_time, findcontour_time, metrics, processed,
                   pushed, calls, allSuccesses, prevRun>>

\* How the harness classifies the outcome of one call.
Outcome(v, r) ==
    IF r.threw THEN "Threw"
    ELSE IF IsSuccess(v, r.duration, r.processed) THEN "Success"
    ELSE IF v = "max_time" THEN "Dropped"
    ELSE "Skip"

AddSuccess(sums, r) ==
    [circularity_ratio |-> sums.circularity_ratio + r.metrics.circularity_ratio,
     area_ratio |-> sums.area_ratio + r.metrics.area_ratio,
     time |-> sums.time + r.duration,
     findcontour_time |-> sums.findcontour_time + r.findcontour_duration,
     count |-> sums.count + 1]

\* History: the elapsed times process_single_image of time_skip.cpp read at
\* the check points it reached (the second is reached only when the first
\* did not return).
CheckPoints(v, r, a, b) ==
    IF v # "time_skip" \/ r.threw THEN <<>>
    ELSE IF r.extracted THEN <<a, b>>
    ELSE <<a>>

\* The call of process_single_image, with the clock readings a <= b it
\* measures.  An exception leaves the task: the task_group keeps it for
\* wait().
Process ==
    /\ cpc = "process"
    /\ \E a, b \in Durations :
         /\ a <= b
         /\ LET r == process_single_image(variant, path, a, b)
                o == Outcome(variant, r)
            IN  /\ calls' = Append(calls, [path |-> path, outcome |-> o,
                                           time |-> r.duration,
                                           findcontour_time |-> r.findcontour_duration,
                                           checks |-> CheckPoints(variant, r, a, b),
                                           extracted |-> r.extracted])
                /\ allSuccesses' = IF o = "Success" THEN AddSuccess(allSuccesses, r)
                                   ELSE allSuccesses
                /\ IF r.threw
                   THEN /\ cpc' = "threw"
                        /\ UNCHANGED <<process_time, findcontour_time, metrics, processed>>
                   ELSE /\ cpc' = "classify"
                        /\ process_time' = r.duration
                        /\ findcontour_time' = r.findcontour_duration
                        /\ metrics' = r.metrics
                        /\ processed' = r.processed
    /\ UNCHANGED <<consumerFrame, outVars, runVars, mtx, image_queue,
                   processing_complete, path, pushed, prevRun>>

\* The locals of one loop iteration go out of scope.
ClearLocals ==
    /\ path' = ""
    /\ process_time' = 0
    /\ findcontour_time' = 0
    /\ metrics' = ZeroMetrics
    /\ processed' = FALSE

\* if (process_time > 0) / if (processed), and the lock_guard of the branch
\* taken.  max_time.cpp has no else branch.
Classify ==
    /\ cpc = "classify"
    /\ IF IsSuccess(variant, process_time, processed)
       THEN /\ mtx = "free"
            /\ mtx' = "consumer"
            /\ cpc' = "add_total"
            /\ UNCHANGED localVars
       ELSE IF variant = "max_time"
       THEN /\ cpc' = "test"
            /\ ClearLocals
            /\ UNCHANGED mtx
       ELSE /\ mtx = "free"
            /\ mtx' = "consumer"
            /\ cpc' = "push_skip"
            /\ UNCHANGED localVars
    /\ UNCHANGED <<consumerFrame, outVars, runVars, image_queue,
                   processing_complete, pushed, calls, allSuccesses, prevRun>>

\* total_time = total_time + process_time (and the findContours total).
AddTotal ==
    /\ cpc = "add_total"
    /\ total_time' = total_time + process_time
    /\ run_findcontour_time' = IF variant = "findcontour"
                               THEN run_findcontour_time + findcontour_time
                               ELSE run_findcontour_time
    /\ cpc' = "compare_max"
    /\ UNCHANGED <<consumerFrame, outVars, number, max_process_time, mtx,
                   image_queue, processing_complete, localVars, pushed, calls,
                   allSuccesses, prevRun>>

\* A faulty ExceedsMax: every Success replaces the recorded slowest.
ExceedsMaxAlways(t, m) == TRUE

\* The comparison that decides whether an item becomes the slowest.
ExceedsMax(t, m) == t > m

\* A faulty CompareMax: the lock is given up between the update of
\* max_process_time and the update of max_time_image.
CompareMaxReleasesLock ==
    /\ cpc = "compare_max"
    /\ IF process_time > max_process_time
       THEN /\ max_process_time' = process_time
            /\ mtx' = "free"
            /\ cpc' = "set_max_image"
       ELSE /\ cpc' = "count"
            /\ UNCHANGED <<max_process_time, mtx>>
    /\ UNCHANGED <<inputVars, pixelVars, printVars, mainVars, outVars, total_time,
                   run_findcontour_time, number, image_queue,
                   processing_complete, localVars, pushed, calls, allSuccesses, prevRun>>

\* if (process_time > max_process_time) max_process_time = process_time;
CompareMax ==
    /\ cpc = "compare_max"
    /\ IF ExceedsMax(process_time, max_process_time)
       THEN /\ max_process_time' = process_time
            /\ cpc' = "set_max_image"
       ELSE /\ cpc' = "count"
            /\ UNCHANGED max_process_time
    /\ UNCHANGED <<consumerFrame, outVars, total_time, run_findcontour_time,
                   number, mtx, image_queue, processing_complete, localVars,
                   pushed, calls, allSuccesses, prevRun>>

\* max_time_image = { path.string(), process_time }; max_time.cpp assigns
\* the file name alone.
SetMaxImage ==
    /\ cpc = "set_max_image"
    /\ max_time_image' = IF variant = "max_time"
                         THEN <<path, max_time_image[2]>>
                         ELSE <<path, process_time>>
    /\ cpc' = "count"
    /\ UNCHANGED <<consumerFrame, results, skipped_images, runVars, mtx,
                   image_queue, processing_complete, localVars, pushed, calls,
                   allSuccesses, prevRun>>

\* The tuple pushed onto results.
ResultTuple ==
    IF variant = "findcontour"
    THEN <<path, metrics.circularity_ratio, metrics.area_ratio, process_time,
           findcontour_time>>
    ELSE <<path, metrics.circularity_ratio, metrics.area_ratio, process_time>>

\* number++; results.push_back(...) (max_time.cpp keeps no results).
Count ==
    /\ cpc = "count"
    /\ number' = number + 1
    /\ results' = IF variant = "max_time" THEN results
                  ELSE Append(results, ResultTuple)
    /\ cpc' = "unlock"
    /\ UNCHANGED <<consumerFrame, skipped_images, max_time_image, total_time,
                   run_findcontour_time, max_process_time, mtx, image_queue,
                   processing_complete, localVars, pushed, calls, allSuccesses, prevRun>>

\* A faulty PushSkip: the skipped item is counted as well.
PushSkipCounts ==
    /\ cpc = "push_skip"
    /\ skipped_images' = Append(skipped_images,
                                IF variant = "time_skip" THEN <<path, process_time>>
                                ELSE path)
    /\ number' = number + 1
    /\ cpc' = "unlock"
    /\ UNCHANGED <<inputVars, pixelVars, printVars, mainVars, results, max_time_image, total_time,
                   run_findcontour_time, max_process_time, mtx, image_queue,
                   processing_complete, localVars, pushed, calls, allSuccesses, prevRun>>

\* skipped_images.push_back(...)
PushSkip ==
    /\ cpc = "push_skip"
    /\ skipped_images' = Append(skipped_images,
                                IF variant = "time_skip" THEN <<path, process_time>>
                                ELSE path)
    /\ cpc' = "unlock"
    /\ UNCHANGED <<consumerFrame, results, max_time_image, runVars, mtx,
                   image_queue, processing_complete, localVars, pushed, calls,
                   allSuccesses, prevRun>>

\* End of the branch: the lock_guard releases mtx.
Unlock ==
    /\ cpc = "unlock"
    /\ mtx' = "free"
    /\ ClearLocals
    /\ cpc' = "test"
    /\ UNCHANGED <<consumerFrame, outVars, runVars, image_queue,
                   processing_complete, pushed, calls, allSuccesses, prevRun>>

\* ------------------------------------------------------------ the system
Main ==
    \/ MainStart
    \/ LoopHead
    \/ RunExperimentBegin
    \/ Spawn
    \/ Enumerate
    \/ SetComplete
    \/ GroupWait
    \/ GroupWaitRethrow
    \/ Fold
    \/ Report

Consumer ==
    \/ TestComplete
    \/ TestEmpty
    \/ TryPop
    \/ Process
    \/ Classify
    \/ AddTotal
    \/ CompareMax
    \/ SetMaxImage
    \/ Count
    \/ PushSkip
    \/ Unlock

Next == Main \/ Consumer

Spec == Init /\ [][Next]_vars

\* ------------------------------------------- print_progress on its own
\* The progress line for every current and total up to MaxTotal, as
\* findcontour_time_10000.cpp and max_time.cpp print it.
ProgressInit ==
    /\ variant \in {"findcontour", "max_time"}
    /\ dir = {}
    /\ mpc = "print_progress"
    /\ i = 0
    /\ results = <<>>
    /\ skipped_images = <<>>
    /\ max_time_image = <<"", 0>>
    /\ total_circularity_ratio = 0
    /\ total_area_ratio = 0
    /\ total_processing_time = 0
    /\ total_findcontour_time = 0
    /\ image_count = <<>>
    /\ average = <<>>
    /\ exit_code = 0
    /\ cerr = 0
    /\ background = "unread"
    /\ total_time = 0
    /\ run_findcontour_time = 0
    /\ number = 0
    /\ max_process_time = 0
    /\ mtx = "free"
    /\ image_queue = <<>>
    /\ processing_complete = FALSE
    /\ toVisit = {}
    /\ cpc = "idle"
    /\ path = ""
    /\ process_time = 0
    /\ findcontour_time = 0
    /\ metrics = ZeroMetrics
    /\ processed = FALSE
    /\ pushed = <<>>
    /\ calls = <<>>
    /\ allSuccesses = NoSums
    /\ prevRun = NoRun
    /\ progress_line = NoLine
    /\ ranking = <<>>
    /\ maxItems = <<>>
    /\ max_info = [filename |-> "", white_pixel_count |-> 0]
    /\ min_info = [filename |-> "", white_pixel_count |-> IntMax]
    /\ processed_any_file = FALSE
    /\ visited = <<>>
    /\ summary = NoSummary

PrintProgress ==
    /\ mpc = "print_progress"
    /\ \E total \in 1..MaxTotal : \E current \in 0..total :
         progress_line' = print_progress(variant, current, total)
    /\ mpc' = "printed"
    /\ UNCHANGED <<inputVars, pixelVars, ranking, maxItems, i, totalVars, image_count, average,
                   exit_code, cerr, background, toVisit, outVars, runVars, mtx,
                   image_queue, processing_complete, cpc, localVars, pushed,
                   calls, allSuccesses, prevRun>>

ProgressSpec == ProgressInit /\ [][PrintProgress]_vars

\* ------------------------------------------------------------- pixel.cpp
pixelFrame == <<inputVars, printVars, i, totalVars, image_count, average,
                outVars, runVars, mtx, image_queue, processing_complete, cpc,
                localVars, pushed, calls, allSuccesses, prevRun>>

PixelInit ==
    /\ variant = "pixel"
    /\ dir \in {d \in SUBSET PixelFiles : Cardinality(d) <= MaxPixelFiles}
    /\ mpc = "pixel_main"
    /\ i = 0
    /\ results = <<>>
    /\ skipped_images = <<>>
    /\ max_time_image = <<"", 0>>
    /\ total_circularity_ratio = 0
    /\ total_area_ratio = 0
    /\ total_processing_time = 0
    /\ total_findcontour_time = 0
    /\ image_count = <<>>
    /\ average = <<>>
    /\ exit_code = 0
    /\ cerr = 0
    /\ background = "unread"
    /\ total_time = 0
    /\ run_findcontour_time = 0
    /\ number = 0
    /\ max_process_time = 0
    /\ mtx = "free"
    /\ image_queue = <<>>
    /\ processing_complete = FALSE
    /\ toVisit = {}
    /\ cpc = "idle"
    /\ path = ""
    /\ process_time = 0
    /\ findcontour_time = 0
    /\ metrics = ZeroMetrics
    /\ processed = FALSE
    /\ pushed = <<>>
    /\ calls = <<>>
    /\ allSuccesses = NoSums
    /\ prevRun = NoRun
    /\ progress_line = NoLine
    /\ ranking = <<>>
    /\ maxItems = <<>>
    /\ max_info = [filename |-> "", white_pixel_count |-> 0]
    /\ min_info = [filename |-> "", white_pixel_count |-> IntMax]
    /\ processed_any_file = FALSE
    /\ visited = <<>>
    /\ summary = NoSummary

\* main up to the loop: the directory must exist and the reference frame be
\* readable, else main returns -1; then the two records are initialised.
PixelStart ==
    /\ mpc = "pixel_main"
    /\ \E exists, readable \in BOOLEAN :
         IF ~exists
         THEN /\ cerr' = cerr + 1
              /\ exit_code' = -1
              /\ mpc' = "exit"
              /\ UNCHANGED <<background, toVisit>>
         ELSE IF ~readable
         THEN /\ background' = "empty"
              /\ cerr' = cerr + 1
              /\ exit_code' = -1
              /\ mpc' = "exit"
              /\ UNCHANGED toVisit
         ELSE /\ background' = "image"
              /\ toVisit' = dir \cup PixelOther
              /\ mpc' = "pixel_loop"
              /\ UNCHANGED <<cerr, exit_code>>
    /\ max_info' = [filename |-> "", white_pixel_count |-> 0]
    /\ min_info' = [filename |-> "", white_pixel_count |-> IntMax]
    /\ processed_any_file' = FALSE
    /\ UNCHANGED <<pixelFrame, visited, summary>>

\* One iteration of the loop over the directory, the iterator giving the
\* entries in an unspecified order.
PixelVisit ==
    /\ mpc = "pixel_loop"
    /\ \E e \in toVisit :
         /\ toVisit' = toVisit \ {e}
         /\ IF PixelFilter(e)
            THEN LET r == pixel_process_single_image(e, max_info, min_info)
                 IN  /\ max_info' = r.max_info
                     /\ min_info' = r.min_info
                     /\ processed_any_file' = TRUE
                     /\ visited' = Append(visited, e)
            ELSE UNCHANGED <<max_info, min_info, processed_any_file, visited>>
    /\ UNCHANGED <<pixelFrame, mpc, exit_code, cerr, background, summary>>

\* After the loop: the summary, or the message that no file matched.
PixelSummary ==
    /\ mpc = "pixel_loop"
    /\ toVisit = {}
    /\ summary' = IF ~processed_any_file
                  THEN [NoSummary EXCEPT !.printed = "no matching files"]
                  ELSE [printed |-> "extremes", max |-> max_info, min |-> min_info]
    /\ exit_code' = 0
    /\ mpc' = "exit"
    /\ UNCHANGED <<pixelFrame, cerr, background, toVisit, max_info, min_info,
                   processed_any_file, visited>>

PixelNext == PixelStart \/ PixelVisit \/ PixelSummary

PixelSpec == PixelInit /\ [][PixelNext]_vars

\* =================================================================== claims
\* The run of this repetition has returned from run_experiment after
\* reading the reference frame.
RunReturned == mpc = "after_run" /\ background = "image"

\* The locals of run_experiment exist and the consumer task may run.
RunActive == mpc \in {"enumerate", "wait"}

Occurrences(seq, x) == Cardinality({k \in DOMAIN seq : seq[k] = x})

CallPaths == [k \in DOMAIN calls |-> calls[k].path]

Successes == SelectSeq(calls, IsSuccessCall)

RECURSIVE SumTime(_)
SumTime(cs) == IF cs = <<>> THEN 0 ELSE Head(cs).time + SumTime(Tail(cs))

\* C1: once run_experiment has returned from a repetition whose reference
\* frame was readable, the number of entries of results plus the number of
\* entries of skipped_images is the number of files pushed in it
\* (findcontour_time_10000.cpp and time_skip.cpp).
C1_SuccessPlusSkipIsPushed ==
    (RunReturned /\ variant \in {"findcontour", "time_skip"})
        => Len(results) + Len(skipped_images) = Len(pushed)

C1_Witness ==
    /\ RunReturned
    /\ variant = "time_skip"
    /\ Len(results) = 1
    /\ Len(skipped_images) = 1

\* C2: no pushed path is passed to process_single_image more often than it
\* was pushed, and when run_experiment returns every pushed path has been
\* passed to it exactly once.
C2_ExactlyOnce ==
    /\ \A f \in FrameFiles : Occurrences(CallPaths, f) <= Occurrences(pushed, f)
    /\ RunReturned =>
         \A f \in FrameFiles : Occurrences(CallPaths, f) = Occurrences(pushed, f)

C2_Witness ==
    /\ RunReturned
    /\ Len(pushed) = 2
    /\ Len(calls) = 2
    /\ i = 1

\* C3 (as claimed): after a run with at least one Success, max_time_image
\* names the Success with the greatest elapsed time, the first aggregated
\* one on ties, for every elapsed time >= 0.
C3_MaxIsFirstSlowestSuccess ==
    (RunReturned /\ Successes # <<>>)
        => /\ max_time_image[1] = FirstSlowest(Successes).path
           /\ max_time_image[2] = FirstSlowest(Successes).time

\* The same for runs whose Successes all took more than 0 microseconds.
C3_MaxIsFirstSlowestPositive ==
    (RunReturned /\ Successes # <<>> /\ MaxTime(Successes) > 0)
        => /\ max_time_image[1] = FirstSlowest(Successes).path
           /\ max_time_image[2] = FirstSlowest(Successes).time

C3_TieReached ==
    /\ RunReturned
    /\ Len(Successes) = 2
    /\ Successes[1].time = Successes[2].time
    /\ Successes[1].time > 0

\* The calls whose outcome has been aggregated: all but the one the
\* consumer has made and not yet classified.
Aggregated == IF cpc = "classify" THEN SubSeq(calls, 1, Len(calls) - 1) ELSE calls

AggregatedSuccesses == SelectSeq(Aggregated, IsSuccessCall)

IsSkipCall(c) == c.outcome = "Skip"

AggregatedSkips == SelectSeq(Aggregated, IsSkipCall)

\* C4: whenever mtx is free during a run, the aggregates are those of whole
\* items: the count, the total and results cover exactly the aggregated
\* Successes, skipped_images the aggregated Skips, and the recorded slowest
\* image is an aggregated Success whose elapsed
\* time is max_process_time (or no image is recorded and the maximum is 0).
C4_ConsistentWhenUnlocked ==
    (RunActive /\ mtx = "free")
        => /\ number = Len(AggregatedSuccesses)
           /\ total_time = SumTime(AggregatedSuccesses)
           /\ variant # "max_time" => /\ Len(results) = number
                                      /\ Len(skipped_images) = Len(AggregatedSkips)
                                      /\ max_time_image[2] = max_process_time
           /\ \/ max_time_image[1] = "" /\ max_process_time = 0
              \/ \E k \in DOMAIN AggregatedSuccesses :
                    /\ AggregatedSuccesses[k].path = max_time_image[1]
                    /\ AggregatedSuccesses[k].time = max_process_time

C4_Witness ==
    /\ RunActive
    /\ mtx = "free"
    /\ number = 2
    /\ max_time_image[1] # ""
    /\ max_process_time = 201

\* q is the quotient sum / count.
SameQuotient(q, sum, count) == q[1] * count = sum * q[2]

\* C5 (as claimed): the averages findcontour_time_10000.cpp reports are the
\* sums over every Success of every repetition divided by the number of
\* Successes of all repetitions, also when that number differs between
\* repetitions.
C5_AveragesOverAllSuccesses ==
    (mpc = "exit" /\ variant = "findcontour" /\ allSuccesses.count > 0)
        => /\ SameQuotient(average.circularity_ratio,
                           allSuccesses.circularity_ratio, allSuccesses.count)
           /\ SameQuotient(average.area_ratio,
                           allSuccesses.area_ratio, allSuccesses.count)
           /\ SameQuotient(average.processing_time,
                           allSuccesses.time, allSuccesses.count)
           /\ SameQuotient(average.findcontour_time,
                           allSuccesses.findcontour_time, allSuccesses.count)

\* The sums themselves are those of all Successes: only the divisor is off.
C5_SumsAreExact ==
    (mpc = "exit" /\ variant = "findcontour")
        => /\ total_circularity_ratio = allSuccesses.circularity_ratio
           /\ total_area_ratio = allSuccesses.area_ratio
           /\ total_processing_time = allSuccesses.time
           /\ total_findcontour_time = allSuccesses.findcontour_time

SetOf(seq) == {seq[k] : k \in DOMAIN seq}

CallSet == SetOf(calls)

SuccessSet == {c \in CallSet : c.outcome = "Success"}

RECURSIVE SumOver(_, _)
SumOver(S, field) ==
    IF S = {} THEN 0
    ELSE LET c == CHOOSE x \in S : TRUE
         IN  c[field] + SumOver(S \ {c}, field)

SetMaxTime(S) == IF S = {} THEN 0 ELSE CHOOSE t \in {c.time : c \in S} :
                                          \A c \in S : c.time <= t

Slowest(S) == {c \in S : c.time = SetMaxTime(S)}

\* This run and the last completed one made the same calls with the same
\* outcomes and clock readings, in whatever order.
SameCallsAsPrevious == RunReturned /\ prevRun.valid /\ SetOf(prevRun.calls) = CallSet

C7_UnreadableReferenceIsFatal ==
    cerr > 0 => /\ mpc \in {"after_run", "loop", "report", "exit"}
                /\ mpc = "loop" => i >= RepetitionsOf(variant)
                /\ mpc = "exit" => exit_code # 0

\* What holds of every variant: the failure is reported and nothing is
\* pushed or processed in that repetition.
C7_NothingProcessedInThatRun ==
    background = "empty" => /\ cerr > 0
                            /\ pushed = <<>>
                            /\ calls = <<>>
                            /\ results = <<>>

\* C8 (as claimed): once the directory loop of a run has started, wait()
\* eventually returns with every pushed item classified.
Classified(f) == \E k \in DOMAIN calls : calls[k].path = f /\ calls[k].outcome # "Threw"

C8_EveryRunCompletes ==
    (mpc = "enumerate")
        ~> (mpc = "after_run" /\ \A k \in DOMAIN pushed : Classified(pushed[k]))

\* The same for directories every frame of which can be decoded.
C8_ReadableRunsComplete ==
    (mpc = "enumerate" /\ \A f \in dir : Frame(f).readable)
        ~> (mpc = "after_run" /\ \A k \in DOMAIN pushed : Classified(pushed[k]))

\* C9: whenever main is outside the directory loop and wait() (it resets,
\* folds or reports), no consumer task is running and mtx is free.
C9_NoTaskOutsideRun ==
    mpc \notin {"enumerate", "wait", "terminated"}
        => cpc \in {"idle", "done"} /\ mtx = "free"

C9_Witness ==
    /\ mpc = "after_run"
    /\ cpc = "done"
    /\ i = 1
    /\ Len(results) = 2

\* C10: when the consumer task of a repetition is started, the per-run
\* state is empty; and the steps that reset it (the loop head and the entry
\* of run_experiment) leave the cross-run totals as they were.
RunStartsEmpty ==
    mpc = "spawn"
        => /\ results = <<>>
           /\ skipped_images = <<>>
           /\ max_time_image = <<"", 0>>
           /\ total_time = 0
           /\ run_findcontour_time = 0
           /\ number = 0
           /\ max_process_time = 0
           /\ image_queue = <<>>
           /\ ~processing_complete

ResetKeepsTotals ==
    (mpc \in {"loop", "run_experiment"}) => UNCHANGED <<totalVars, image_count>>

C10_ResetPerRunStateOnly == [][RunStartsEmpty' /\ ResetKeepsTotals]_vars

C10_Witness ==
    /\ mpc = "spawn"
    /\ i = 1
    /\ prevRun.valid
    /\ prevRun.stats.success_count = 2
    /\ variant = "findcontour"
    /\ total_processing_time > 0

\* The counter of x, 0 when x is no key of the map.
CountOf(m, x) == IF x \in DOMAIN m THEN m[x] ELSE 0

RECURSIVE SumCounts(_, _)
SumCounts(m, keys) ==
    IF keys = {} THEN 0
    ELSE LET x == CHOOSE y \in keys : TRUE
         IN  m[x] + SumCounts(m, keys \ {x})

\* C11: in max_time.cpp, after every repetition image_count[x] is the number
\* of repetitions so far whose slowest Success was x, for every item x; one
\* repetition has been counted per loop iteration, and the counters sum to
\* the number of repetitions that had a Success.
C11_CountsAreMaxItemFrequencies ==
    variant = "max_time"
        => /\ DOMAIN image_count \subseteq FrameFiles
           /\ \A x \in FrameFiles : CountOf(image_count, x) = Occurrences(maxItems, x)
           /\ Len(maxItems) = i
           /\ SumCounts(image_count, DOMAIN image_count)
                 = Cardinality({k \in DOMAIN maxItems : maxItems[k] # ""})

C11_Witness ==
    /\ variant = "max_time"
    /\ mpc = "exit"
    /\ CountOf(image_count, "C.tiff") = 2
    /\ Len(pushed) = 2

\* The repetition in which x first was the slowest Success.
FirstEncounter(x) ==
    CHOOSE k \in DOMAIN maxItems :
        maxItems[k] = x /\ \A h \in 1..(k - 1) : maxItems[h] # x

\* The ranking has at most TopK lines, in descending order of count.
RankingIsDescendingTopK ==
    /\ Len(ranking) <= TopK
    /\ \A j, k \in DOMAIN ranking : j < k => ranking[j][2] >= ranking[k][2]

\* C12 (as claimed): the ranking max_time.cpp prints has at most 5 lines in
\* descending order of count, and of two items with the same count the one
\* that was a repetition's slowest first stands first.
C12_RankingTiesFirstEncountered ==
    (variant = "max_time" /\ mpc = "exit" /\ exit_code = 0)
        => /\ RankingIsDescendingTopK
           /\ \A j, k \in DOMAIN ranking :
                 (j < k /\ ranking[j][2] = ranking[k][2])
                     => FirstEncounter(ranking[j][1]) < FirstEncounter(ranking[k][1])

\* What holds: the lines are the TopK greatest counters (all of them when
\* there are fewer), each with its count, in descending order.
C12_RankingIsTopKDescending ==
    (variant = "max_time" /\ mpc = "exit" /\ exit_code = 0)
        => /\ RankingIsDescendingTopK
           /\ Len(ranking) = IF Cardinality(DOMAIN image_count) < TopK
                             THEN Cardinality(DOMAIN image_count) ELSE TopK
           /\ \A k \in DOMAIN ranking :
                 /\ ranking[k][1] \in DOMAIN image_count
                 /\ ranking[k][2] = image_count[ranking[k][1]]
           /\ \A j, k \in DOMAIN ranking : j # k => ranking[j][1] # ranking[k][1]

\* The number of characters ch in the bar.
CountChar(bar, ch) == Cardinality({j \in DOMAIN bar : bar[j] = ch})

\* floor(BarWidth * current / total)
FillLength(line) == (BarWidth * line.current) \div line.total

C14_UnreadableIsOwnSkip ==
    /\ \A k \in DOMAIN calls :
          ~Frame(calls[k].path).readable => calls[k].outcome = "Skip"
    /\ cpc # "threw"

\* The items the consumer task is processing (popped and not yet
\* aggregated): the task group holds the one task of group.run.
InProcessing ==
    IF cpc \in {"process", "classify", "add_total", "compare_max",
                "set_max_image", "count", "push_skip", "unlock"}
    THEN 1 ELSE 0

\* A task is at its loop head or at try_pop, free to take an item.
WorkerFree == cpc \in {"test", "test_empty", "pop"}

\* C15 (as claimed): the queue is drained by as many workers as the machine
\* has hardware threads: during a run no item waits in the queue while
\* fewer items than that are in processing and no worker is free to pop it.
C15_PoolOfWWorkers ==
    (RunActive /\ cpc # "threw" /\ image_queue # <<>>)
        => (InProcessing = HardwareThreads \/ WorkerFree)

\* C16: whenever processing_complete is true, the directory loop has given
\* every entry and every work item of the directory has been pushed.
C16_CompleteOnlyAfterLastPush ==
    processing_complete
        => /\ toVisit = {}
           /\ SetOf(pushed) = {e \in dir \cup OtherEntries : IsWorkItem(e)}
           /\ Len(pushed) = Cardinality(dir)

C16_Witness ==
    /\ processing_complete
    /\ mpc = "wait"
    /\ Len(pushed) = 2
    /\ cpc = "process"
    /\ image_queue # <<>>

\* C17: a step of the consumer that finds the flag false goes on to
\* try_pop, and one whose try_pop finds the queue empty goes back to the
\* loop head; the loop is left only from the test of the queue, made after
\* the flag was read true, with the queue empty, and then nothing is left in
\* the queue or to be pushed.
ConsumerRetries ==
    /\ (cpc = "test" /\ ~processing_complete /\ cpc' # cpc) => cpc' = "pop"
    /\ (cpc = "pop" /\ image_queue = <<>> /\ cpc' # cpc) => cpc' = "test"

ConsumerExitsDrained ==
    /\ cpc' = "test_empty" => processing_complete'
    /\ (cpc' = "done" /\ cpc # "done")
          => /\ cpc = "test_empty"
             /\ processing_complete
             /\ image_queue = <<>>
    /\ cpc' = "done" => image_queue' = <<>> /\ toVisit' = {}

C17_ExitOnlyWhenDrained == [][ConsumerRetries /\ ConsumerExitsDrained]_vars

C17_Witness ==
    /\ cpc = "pop"
    /\ image_queue = <<>>
    /\ ~processing_complete
    /\ Len(calls) = 1
    /\ toVisit \cap dir # {}

\* A consumer step that aggregates a Skip.
SkipStep == cpc = "push_skip" /\ cpc' = "unlock"

\* The path of an entry of skipped_images.
SkipPath(entry) == IF variant = "time_skip" THEN entry[1] ELSE entry

\* C18: the step that aggregates a Skip appends one entry, for the item in
\* hand, to skipped_images and leaves the totals, the count, results, the
\* (max_process_time, max_time_image) pair and the queue as they were; the
\* steps into and out of that branch change none of these, and the consumer
\* then returns to its loop head.
C18_SkipOnlyAppends ==
    [][/\ SkipStep
          => /\ Len(skipped_images') = Len(skipped_images) + 1
             /\ SubSeq(skipped_images', 1, Len(skipped_images)) = skipped_images
             /\ SkipPath(skipped_images'[Len(skipped_images')]) = path
             /\ UNCHANGED <<runVars, results, max_time_image, image_queue, pushed>>
       /\ (cpc = "classify" /\ cpc' = "push_skip")
          => UNCHANGED <<runVars, outVars, image_queue, pushed>>
       /\ (cpc = "unlock" /\ cpc' # cpc)
          => /\ cpc' = "test"
             /\ UNCHANGED <<runVars, outVars, image_queue, pushed>>]_vars

C18_Witness ==
    /\ cpc = "unlock"
    /\ calls # <<>>
    /\ calls[Len(calls)].outcome = "Skip"
    /\ Len(skipped_images) = 1
    /\ number = 1
    /\ total_time > 0
    /\ max_time_image[1] # ""

\* C19: in time_skip.cpp a call that returned is a Success exactly when
\* both check points were reached with an elapsed time of at most 200;
\* otherwise it is a Skip whose time is the elapsed time read at the check
\* point that failed, more than 200.  So every entry of results and the
\* recorded maximum are at most 200 and every entry of skipped_images is
\* above 200.
C19_BudgetDecidesOutcome ==
    variant = "time_skip"
        => /\ \A k \in DOMAIN calls :
                 calls[k].outcome # "Threw"
                     => LET c == calls[k]
                            within == /\ Len(c.checks) = 2
                                      /\ c.checks[1] <= TimeBudget
                                      /\ c.checks[2] <= TimeBudget
                        IN  /\ (c.outcome = "Success") <=> within
                            /\ ~within => /\ c.outcome = "Skip"
                                           /\ c.time = c.checks[Len(c.checks)]
                                           /\ c.time > TimeBudget
           /\ \A k \in DOMAIN results : results[k][4] <= TimeBudget
           /\ \A k \in DOMAIN skipped_images : skipped_images[k][2] > TimeBudget
           /\ max_process_time <= TimeBudget
           /\ max_time_image[2] <= TimeBudget

C19_Witness ==
    /\ variant = "time_skip"
    /\ RunReturned
    /\ Len(results) = 1
    /\ results[1][4] = TimeBudget
    /\ Len(skipped_images) = 1
    /\ skipped_images[1][2] = TimeBudget + 1

\* The white-pixel count of the frame lies in the window, bounds included.
InWindow(f) == Frame(f).white >= PixelLow /\ Frame(f).white <= PixelHigh

\* Out of the window: a Skip, and findContours is not reached.
OutOfWindowSkips ==
    \A k \in DOMAIN calls :
        (calls[k].outcome # "Threw" /\ ~InWindow(calls[k].path))
            => calls[k].outcome = "Skip" /\ ~calls[k].extracted

\* C20 (as claimed): in findcontour_time_10000.cpp a frame with fewer than
\* 250 or more than 650 white pixels is a Skip and findContours is not
\* reached, and a frame with 250 to 650 white pixels is never a Skip.
C20_WindowDecidesSkip ==
    variant = "findcontour"
        => /\ OutOfWindowSkips
           /\ \A k \in DOMAIN calls :
                 (calls[k].outcome # "Threw" /\ InWindow(calls[k].path))
                     => calls[k].outcome # "Skip"

\* What holds: the first half, and a frame in the window is a Skip only
\* when its elapsed time was not above 0.
C20_InWindowSkipsOnlyAtZero ==
    variant = "findcontour"
        => /\ OutOfWindowSkips
           /\ \A k \in DOMAIN calls :
                 (calls[k].outcome # "Threw" /\ InWindow(calls[k].path))
                     => /\ calls[k].extracted
                        /\ calls[k].outcome = "Skip" <=> calls[k].time = 0

\* A call that went through findContours, returned within the budget (if
\* there is one) and found no contour.
FoundNoContour(c) ==
    /\ c.outcome # "Threw"
    /\ c.extracted
    /\ Frame(c.path).contours = 0
    /\ variant = "time_skip" => c.time <= TimeBudget

\* The item of call c is in results with all-zero metrics and not in
\* skipped_images.
RecordedAsZeroSuccess(c) ==
    /\ \E k \in DOMAIN results :
          /\ results[k][1] = c.path
          /\ results[k][2] = 0
          /\ results[k][3] = 0
          /\ results[k][4] = c.time
    /\ \A k \in DOMAIN skipped_images : SkipPath(skipped_images[k]) # c.path

\* C21 (as claimed): in findcontour_time_10000.cpp and time_skip.cpp a frame
\* in which findContours finds no contour is a Success with all-zero
\* metrics: after the run it is in results, counted in number, and not in
\* skipped_images.
C21_NoContourIsZeroSuccess ==
    variant \in {"findcontour", "time_skip"}
        => /\ \A k \in DOMAIN calls :
                 FoundNoContour(calls[k]) => calls[k].outcome = "Success"
           /\ RunReturned
                 => /\ \A k \in DOMAIN calls :
                          FoundNoContour(calls[k]) => RecordedAsZeroSuccess(calls[k])
                    /\ number = Len(results)

\* What holds: the same for the calls that measured an elapsed time above 0
\* (every such call of time_skip.cpp that returned true).
C21_NoContourIsZeroSuccessAbove0 ==
    variant \in {"findcontour", "time_skip"}
        => /\ \A k \in DOMAIN calls :
                 (FoundNoContour(calls[k]) /\ (variant = "findcontour" => calls[k].time > 0))
                     => calls[k].outcome = "Success"
           /\ RunReturned
                 => /\ \A k \in DOMAIN calls :
                          (FoundNoContour(calls[k])
                             /\ (variant = "findcontour" => calls[k].time > 0))
                              => RecordedAsZeroSuccess(calls[k])
                    /\ number = Len(results)

\* The name ends in ".tiff".
EndsWithTiff(e) == Len(e) >= 5 /\ SubSeq(e, Len(e) - 4, Len(e)) = ".tiff"

\* The entries of the directory the harness is to enqueue.
ExpectedItems ==
    {e \in dir \cup OtherEntries : EndsWithTiff(e) /\ e # "background.tiff"}

\* C22: every item pushed is a .tiff entry of the directory other than
\* background.tiff and is pushed once; when the directory loop has ended
\* every such entry has been pushed; and two repetitions over the directory
\* push the same set of items.
C22_EnqueuesExactlyWorkItems ==
    /\ \A k \in DOMAIN pushed : pushed[k] \in ExpectedItems
    /\ \A j, k \in DOMAIN pushed : j # k => pushed[j] # pushed[k]
    /\ SetOf(image_queue) \subseteq SetOf(pushed)
    /\ (mpc \in {"wait", "after_run"} /\ background = "image")
          => SetOf(pushed) = ExpectedItems
    /\ (RunReturned /\ prevRun.valid) => SetOf(pushed) = SetOf(prevRun.pushed)

C22_Witness ==
    /\ RunReturned
    /\ prevRun.valid
    /\ Len(pushed) = 2
    /\ pushed # prevRun.pushed
    /\ SetOf(pushed) = SetOf(prevRun.pushed)

\* C23 (as claimed): after a completed run of any of the three programs the
\* recorded slowest image is non-empty exactly when the run had a Success,
\* whatever the elapsed times; and max_time.cpp has counted one more image
\* exactly for the repetitions with a Success.
C23_MaxItemIffSuccess ==
    /\ RunReturned => (max_time_image[1] # "" <=> Successes # <<>>)
    /\ variant = "max_time"
          => SumCounts(image_count, DOMAIN image_count)
               = Cardinality({k \in DOMAIN maxItems : maxItems[k] # ""})

\* What holds: the equivalence in findcontour_time_10000.cpp and
\* max_time.cpp, where a Success has an elapsed time above 0; in
\* time_skip.cpp a recorded image implies a Success, and a Success with an
\* elapsed time above 0 implies a recorded image.
C23_MaxItemIffPositiveSuccess ==
    RunReturned
        => /\ variant # "time_skip" => (max_time_image[1] # "" <=> Successes # <<>>)
           /\ max_time_image[1] # "" => Successes # <<>>
           /\ (Successes # <<>> /\ MaxTime(Successes) > 0) => max_time_image[1] # ""

\* ---- C24
\* The places of the visited files imread could decode.
ReadableVisits == {k \in DOMAIN visited : PixelFrame(visited[k]).readable}

WhiteAt(k) == PixelFrame(visited[k]).white

\* info names the first visited readable image with the greatest count.
IsFirstMaximum(info) ==
    \E k \in ReadableVisits :
        /\ info = [filename |-> visited[k], white_pixel_count |-> WhiteAt(k)]
        /\ \A j \in ReadableVisits :
              /\ WhiteAt(j) <= WhiteAt(k)
              /\ j < k => WhiteAt(j) < WhiteAt(k)

\* info names the first visited readable image with the least count.
IsFirstMinimum(info) ==
    \E k \in ReadableVisits :
        /\ info = [filename |-> visited[k], white_pixel_count |-> WhiteAt(k)]
        /\ \A j \in ReadableVisits :
              /\ WhiteAt(j) >= WhiteAt(k)
              /\ j < k => WhiteAt(j) > WhiteAt(k)

\* C24: whenever the final summary of the pixel-count scan is printed, the
\* maximum and minimum records it prints each name a readable visited image
\* whose white-pixel count is the maximum, respectively the minimum, over the
\* readable visited images, the first visited being kept on ties.
C24_SummaryNamesExtremes ==
    summary.printed = "extremes" =>
        /\ IsFirstMaximum(summary.max)
        /\ IsFirstMinimum(summary.min)

\* C24, where it holds: the maximum record is the first visited maximum once
\* a readable visited image has a white pixel, the minimum record is the
\* first visited minimum once a readable image was visited, during the loop
\* and in the summary; until then the records keep their initial values.
C24_ExtremesOfReadableVisits ==
    /\ variant = "pixel" =>
          /\ IF \E k \in ReadableVisits : WhiteAt(k) > 0
             THEN IsFirstMaximum(max_info)
             ELSE max_info = [filename |-> "", white_pixel_count |-> 0]
          /\ IF ReadableVisits # {}
             THEN IsFirstMinimum(min_info)
             ELSE min_info = [filename |-> "", white_pixel_count |-> IntMax]
    /\ summary.printed = "extremes" =>
          /\ processed_any_file /\ visited # <<>>
          /\ summary.max = max_info /\ summary.min = min_info

\* C24: a summary printed after a scan that met two images with the greatest
\* count, two with the least positive count and an unreadable one.
C24_Witness ==
    /\ summary.printed = "extremes"
    /\ \E j, k \in ReadableVisits : j # k /\ WhiteAt(j) = WhiteAt(k)
                                     /\ WhiteAt(k) = summary.max.white_pixel_count
    /\ \E k \in DOMAIN visited : ~PixelFrame(visited[k]).readable

\* C24: visiting an unreadable image leaves both records unchanged.
C24_UnreadableLeavesRecords ==
    [][(Len(visited') = Len(visited) + 1
        /\ ~PixelFrame(visited'[Len(visited')]).readable)
       => UNCHANGED <<max_info, min_info>>]_vars

\* The threads are scheduled fairly: a step of main or of the consumer task
\* that stays possible is eventually taken.
FairSpec == Spec /\ WF_vars(Main) /\ WF_vars(Consumer)

====
